---- MODULE Spec2Model ----
(***************************************************************************)
(* A model of simpletcpunixrelay (main.go): the accept loop, the per       *)
(* connection handler handleConn with its two closer goroutines and its    *)
(* two io.Copy goroutines, the session error cell (proxy.err, proxy.mu,    *)
(* proxy.handleError), proxy.run and the top-level run.                    *)
(*                                                                         *)
(* A payload byte is modelled as a token <<c, i>>: the i-th byte the peer  *)
(* of connection c wrote.  The relay never looks at the payload, so any    *)
(* byte string is an image of such a token string, and tokens let a check  *)
(* see loss, duplication, reordering and cross delivery.                   *)
(***************************************************************************)
EXTENDS Integers, Sequences, FiniteSets, TLC

\* Number of connections the listener hands out in a run of the model.
MaxConns == 2
\* Number of steps the environment takes on the connections and on the
\* session, all together: a far end writing a byte, ending its stream,
\* closing or resetting its socket, Accept() failing on an open listener,
\* the context given to run() being cancelled.
MaxEvents == 2
\* Length of the generated address strings.
MaxAddrLen == 3

Handlers == 1..MaxConns
\* Connection ids: the listener's n-th accepted socket is n, the connector's
\* k-th dialed socket is MaxConns + k.
ConnIds == 1..(2 * MaxConns)
NoConn == 0
Dirs == {"up", "down"}

VARIABLES
    parentDone,     \* the context given to run() is cancelled
    runCancelled,   \* run()'s own cancel() was called (main.go:184)
    listenerClosed, \* listener.Close() was called (main.go:177)
    lpc,            \* the goroutine of main.go:174-178
    mainWg,         \* wg of run() (main.go:166)
    mpc,            \* run() itself: "wait" at main.go:202, then "returned"
    retErr,         \* the err variable of run() (main.go:180, 199)
    ppc,            \* the goroutine running proxy.run: accept loop, Wait, read
    pwg,            \* proxy.wg
    perr,           \* proxy.err
    mu,             \* proxy.mu: "free" or the task that holds it
    hepc,           \* the handleError goroutine of main.go:90
    hearg,          \* the error handed to handleError
    ignored,        \* handleError logged "ignored error"
    ndials,         \* number of connections the connector has opened
    hpc,            \* handleConn, per handler
    hin, hout,      \* handleConn's in and out
    hwg,            \* handleConn's local wg (main.go:122)
    hcancel,        \* handleConn's cancel() was called
    cin, cout,      \* the closer goroutines of main.go:124-127 and 135-138
    cp,             \* the io.Copy goroutines: cp[h]["up"] is io.Copy(out, in)
    cbuf,           \* bytes an io.Copy has read and not yet written
    peer,           \* the far end of each connection
    sent,           \* number of bytes the far end has written
    rbuf,           \* bytes written by the far end, not yet read by the relay
    recv,           \* bytes the relay wrote to the connection
    closed,         \* the relay called Close() on the connection
    nenv,           \* number of environment steps taken so far
    sourceAddr,     \* run()'s sourceAddr, a string of characters
    destAddr,       \* run()'s destAddr
    lnet,           \* the network getSourceListener gave net.Listen
    dnet            \* the network the connector gives net.Dial

topVars == <<parentDone, runCancelled, listenerClosed, lpc, mainWg, mpc, retErr>>
sessVars == <<ppc, pwg, perr, mu, hepc, hearg, ignored>>
handlerVars == <<ndials, hpc, hin, hout, hwg, hcancel, cin, cout, cp, cbuf>>
connVars == <<peer, sent, rbuf, recv, closed>>
addrVars == <<sourceAddr, destAddr, lnet, dnet>>
vars == <<topVars, sessVars, handlerVars, connVars, nenv, addrVars>>

----------------------------------------------------------------------------
\* Addresses (main.go:36-55, 188-196)

\* strings.IndexByte: the 0-based place of the first c in s from place i
\* on, or -1.
RECURSIVE IndexByteFrom(_, _, _)
IndexByteFrom(s, c, i) ==
    IF i >= Len(s) THEN -1
    ELSE IF s[i + 1] = c THEN i
    ELSE IndexByteFrom(s, c, i + 1)

\* strings.Contains(s, substr) for a substr of one character.
Contains(s, c) == IndexByteFrom(s, c, 0) >= 0

\* Mutant: only a leading slash makes a unix socket address.
isUnixSocket_prefix(addr) == Len(addr) > 0 /\ addr[1] = "/"
\* isUnixSocket
isUnixSocket(addr) == Contains(addr, "/")

\* getSourceListener: the network it hands to net.Listen.
getSourceListener(addr) == IF isUnixSocket(addr) THEN "unix" ELSE "tcp"

\* Mutant: the connector is built from the source address.
ConnectorNetwork_source(address) == getSourceListener(sourceAddr)
\* The connector closure: the network it hands to net.Dial.
ConnectorNetwork(address) == IF isUnixSocket(address) THEN "unix" ELSE "tcp"

\* The addresses of the specification's examples and of the test.
AddrTcpIp == <<"1", "2", "7", ".", "0", ".", "0", ".", "1", ":", "8", "0", "8", "0">>
AddrTcpName == <<"e", "x", "a", "m", "p", "l", "e", ":", "9", "0", "0", "0">>
AddrUnixAbs == <<"/", "t", "m", "p", "/", "s", "o", "c", "k">>
AddrUnixRel == <<".", "/", "s", "o", "c", "k">>

AddrChars == {"/", ":", "a"}
RECURSIVE StringsUpTo(_)
StringsUpTo(n) ==
    IF n = 0 THEN {<<>>}
    ELSE LET shorter == StringsUpTo(n - 1) IN
         shorter \cup {Append(a, c) : a \in shorter, c \in AddrChars}
Addrs == StringsUpTo(MaxAddrLen)
            \cup {AddrTcpIp, AddrTcpName, AddrUnixAbs, AddrUnixRel}

Init ==
    /\ parentDone = FALSE
    /\ runCancelled = FALSE
    /\ listenerClosed = FALSE
    /\ lpc = "wait"
    /\ mainWg = 2
    /\ mpc = "wait"
    /\ retErr = "nil"
    /\ ppc = "accept"
    /\ pwg = 1
    /\ perr = "nil"
    /\ mu = "free"
    /\ hepc = "none"
    /\ hearg = "nil"
    /\ ignored = FALSE
    /\ ndials = 0
    /\ hpc = [h \in Handlers |-> "idle"]
    /\ hin = [h \in Handlers |-> NoConn]
    /\ hout = [h \in Handlers |-> NoConn]
    /\ hwg = [h \in Handlers |-> 0]
    /\ hcancel = [h \in Handlers |-> FALSE]
    /\ cin = [h \in Handlers |-> "none"]
    /\ cout = [h \in Handlers |-> "none"]
    /\ cp = [h \in Handlers |-> [d \in Dirs |-> "none"]]
    /\ cbuf = [h \in Handlers |-> [d \in Dirs |-> <<>>]]
    /\ peer = [c \in ConnIds |-> "none"]
    /\ sent = [c \in ConnIds |-> 0]
    /\ rbuf = [c \in ConnIds |-> <<>>]
    /\ recv = [c \in ConnIds |-> <<>>]
    /\ closed = [c \in ConnIds |-> FALSE]
    /\ nenv = 0
    /\ sourceAddr = AddrUnixAbs
    /\ destAddr = AddrTcpIp
    /\ lnet = getSourceListener(sourceAddr)
    /\ dnet = ConnectorNetwork(destAddr)

----------------------------------------------------------------------------
\* Helpers

\* wg.Add(1) before each closer goroutine (main.go:123, main.go:134).
CloserAdd == 1
\* wg.Add(2) before the two io.Copy goroutines (main.go:140).
CopyAdd == 2

\* One more step of the environment, within the bound.
EnvStep == /\ nenv < MaxEvents
           /\ nenv' = nenv + 1
           /\ UNCHANGED addrVars

\* ctx of run() (main.go:164): done when the parent is, or after cancel().
RunCtxDone == parentDone \/ runCancelled
\* Mutant: handleConn's ctx is not derived from run()'s ctx.
HCtxDone_detached(h) == hcancel[h]
\* ctx of handleConn (main.go:119): a child of run()'s ctx.
HCtxDone(h) == hcancel[h] \/ RunCtxDone
\* Mutant: cancel() does nothing.
CancelCtx_noop(h) == hcancel
\* Mutant: cancel() cancels the context every handler shares.
CancelCtx_all(h) == [g \in Handlers |-> TRUE]
\* cancel() of handleConn's ctx (main.go:119-120, 144, 153).
CancelCtx(h) == [hcancel EXCEPT ![h] = TRUE]

\* Mutant: the connector keeps one socket and hands it out again.
Connector_cached == MaxConns + 1
\* p.connector() (main.go:188-196): net.Dial opens a new socket every call.
Connector == MaxConns + ndials + 1

\* io.Copy(dst, src): "up" is io.Copy(out, in), "down" is io.Copy(in, out).
Src(h, d) == IF d = "up" THEN hin[h] ELSE hout[h]
Dst(h, d) == IF d = "up" THEN hout[h] ELSE hin[h]

\* The i-th byte the far end of c writes.
Token(c, i) == <<c, i>>
\* The first n bytes the far end of c writes.
Stream(c, n) == [i \in 1..n |-> Token(c, i)]

IsPrefix(s, t) == /\ Len(s) <= Len(t)
                  /\ \A i \in 1..Len(s) : s[i] = t[i]

----------------------------------------------------------------------------
\* The far ends of the connections (client of an inbound connection,
\* destination server of an outbound one)

PeerWrite(c) ==
    /\ peer[c] = "open"
    /\ ~closed[c]
    /\ EnvStep
    /\ sent' = [sent EXCEPT ![c] = @ + 1]
    /\ rbuf' = [rbuf EXCEPT ![c] = Append(@, Token(c, sent[c] + 1))]
    /\ UNCHANGED <<topVars, sessVars, handlerVars, peer, recv, closed>>

\* The far end ends its sending direction and keeps receiving.
PeerShutdownWrite(c) ==
    /\ peer[c] = "open"
    /\ ~closed[c]
    /\ EnvStep
    /\ peer' = [peer EXCEPT ![c] = "shutwr"]
    /\ UNCHANGED <<topVars, sessVars, handlerVars, sent, rbuf, recv, closed>>

\* The far end closes its socket.
PeerClose(c) ==
    /\ peer[c] \in {"open", "shutwr"}
    /\ ~closed[c]
    /\ EnvStep
    /\ peer' = [peer EXCEPT ![c] = "closed"]
    /\ UNCHANGED <<topVars, sessVars, handlerVars, sent, rbuf, recv, closed>>

\* The far end resets the connection: an I/O fault.
PeerReset(c) ==
    /\ peer[c] \in {"open", "shutwr"}
    /\ ~closed[c]
    /\ EnvStep
    /\ peer' = [peer EXCEPT ![c] = "reset"]
    /\ UNCHANGED <<topVars, sessVars, handlerVars, sent, rbuf, recv, closed>>

\* The context given to run() is cancelled.
CancelParent ==
    /\ ~parentDone
    /\ EnvStep
    /\ parentDone' = TRUE
    /\ UNCHANGED <<runCancelled, listenerClosed, lpc, mainWg, mpc, retErr>>
    /\ UNCHANGED <<sessVars, handlerVars, connVars>>

----------------------------------------------------------------------------
\* The top-level run (main.go:163-204)

\* go func() { defer wg.Done(); <-ctx.Done(); listener.Close() }()
ListenerCloser ==
    /\ lpc = "wait"
    /\ RunCtxDone
    /\ listenerClosed' = TRUE
    /\ lpc' = "done"
    /\ mainWg' = mainWg - 1
    /\ UNCHANGED <<parentDone, runCancelled, mpc, retErr>>
    /\ UNCHANGED <<sessVars, handlerVars, connVars>>
    /\ UNCHANGED <<nenv, addrVars>>

\* wg.Wait(); return err
RunReturn ==
    /\ mpc = "wait"
    /\ mainWg = 0
    /\ mpc' = "returned"
    /\ UNCHANGED <<parentDone, runCancelled, listenerClosed, lpc, mainWg, retErr>>
    /\ UNCHANGED <<sessVars, handlerVars, connVars>>
    /\ UNCHANGED <<nenv, addrVars>>

----------------------------------------------------------------------------
\* proxy.run, proxy.accept, proxy.handleError (main.go:73-110)

\* Mutant: the accept loop starts the handler without p.wg.Add(1).
Accept_noAdd(h) ==
    /\ ppc = "accept"
    /\ ~listenerClosed
    /\ hpc[h] = "idle"
    /\ \A g \in Handlers : g < h => hpc[g] # "idle"
    /\ hpc' = [hpc EXCEPT ![h] = "dial"]
    /\ hin' = [hin EXCEPT ![h] = h]
    /\ peer' = [peer EXCEPT ![h] = "open"]
    /\ hwg' = [hwg EXCEPT ![h] = CloserAdd]
    /\ cin' = [cin EXCEPT ![h] = "wait"]
    /\ UNCHANGED <<topVars, ppc, pwg, perr, mu, hepc, hearg, ignored>>
    /\ UNCHANGED <<ndials, hout, hcancel, cout, cp, cbuf, sent, rbuf, recv, closed>>
    /\ UNCHANGED <<nenv, addrVars>>

\* Mutant: the accept loop calls handleConn itself, without go, and takes
\* the next connection only when the handler has returned.
Accept_sync(h) ==
    /\ ppc = "accept"
    /\ ~listenerClosed
    /\ hpc[h] = "idle"
    /\ \A g \in Handlers : g < h => hpc[g] \in {"failed", "done"}
    /\ pwg' = pwg + 1
    /\ hpc' = [hpc EXCEPT ![h] = "dial"]
    /\ hin' = [hin EXCEPT ![h] = h]
    /\ peer' = [peer EXCEPT ![h] = "open"]
    /\ hwg' = [hwg EXCEPT ![h] = CloserAdd]
    /\ cin' = [cin EXCEPT ![h] = "wait"]
    /\ UNCHANGED <<topVars, ppc, perr, mu, hepc, hearg, ignored>>
    /\ UNCHANGED <<ndials, hout, hcancel, cout, cp, cbuf, sent, rbuf, recv, closed>>
    /\ UNCHANGED <<nenv, addrVars>>

\* One turn of the accept loop: Accept() succeeds, p.wg.Add(1),
\* go p.handleConn(ctx, conn); the handler runs up to its dial
\* (main.go:117-127).
Accept(h) ==
    /\ ppc = "accept"
    /\ ~listenerClosed
    /\ hpc[h] = "idle"
    /\ \A g \in Handlers : g < h => hpc[g] # "idle"
    /\ pwg' = pwg + 1
    /\ hpc' = [hpc EXCEPT ![h] = "dial"]
    /\ hin' = [hin EXCEPT ![h] = h]
    /\ peer' = [peer EXCEPT ![h] = "open"]
    /\ hwg' = [hwg EXCEPT ![h] = CloserAdd]
    /\ cin' = [cin EXCEPT ![h] = "wait"]
    /\ UNCHANGED <<topVars, ppc, perr, mu, hepc, hearg, ignored>>
    /\ UNCHANGED <<ndials, hout, hcancel, cout, cp, cbuf, sent, rbuf, recv, closed>>
    /\ UNCHANGED <<nenv, addrVars>>

\* accept() returns an error: defer p.wg.Done(), and proxy.run, which was
\* evaluating the argument of its go statement (main.go:90), starts the
\* handleError goroutine and goes on to p.wg.Wait().
AcceptReturns ==
    /\ pwg' = pwg - 1
    /\ hepc' = "lock"
    /\ hearg' = "accept"
    /\ ppc' = "wait"
    /\ UNCHANGED <<topVars, perr, mu, ignored, handlerVars, connVars>>

\* Accept() fails on a listener that is still open.
AcceptError ==
    /\ ppc = "accept"
    /\ ~listenerClosed
    /\ EnvStep
    /\ AcceptReturns

\* Accept() fails because the listener was closed.
AcceptClosed ==
    /\ ppc = "accept"
    /\ listenerClosed
    /\ UNCHANGED <<nenv, addrVars>>
    /\ AcceptReturns

\* handleError: p.mu.Lock()
HandleErrorLock ==
    /\ hepc = "lock"
    /\ mu = "free"
    /\ mu' = "he"
    /\ hepc' = "locked"
    /\ UNCHANGED <<topVars, ppc, pwg, perr, hearg, ignored, handlerVars, connVars>>
    /\ UNCHANGED <<nenv, addrVars>>

\* handleError: if p.err == nil { log; return }; p.err = err; then the
\* deferred p.mu.Unlock()
HandleError(err) ==
    /\ IF perr = "nil"
       THEN ignored' = TRUE /\ perr' = perr
       ELSE perr' = err /\ ignored' = ignored

HandleErrorBody ==
    /\ hepc = "locked"
    /\ HandleError(hearg)
    /\ mu' = "free"
    /\ hepc' = "done"
    /\ UNCHANGED <<topVars, ppc, pwg, hearg, handlerVars, connVars>>
    /\ UNCHANGED <<nenv, addrVars>>

\* proxy.run: p.wg.Wait() returns
RunWait ==
    /\ ppc = "wait"
    /\ pwg = 0
    /\ ppc' = "read"
    /\ UNCHANGED <<topVars, pwg, perr, mu, hepc, hearg, ignored>>
    /\ UNCHANGED <<handlerVars, connVars>>
    /\ UNCHANGED <<nenv, addrVars>>

\* proxy.run: return p.err; then err = ..., the deferred cancel() and
\* wg.Done() of the goroutine of main.go:182-200
RunRead ==
    /\ ppc = "read"
    /\ retErr' = perr
    /\ ppc' = "done"
    /\ runCancelled' = TRUE
    /\ mainWg' = mainWg - 1
    /\ UNCHANGED <<parentDone, listenerClosed, lpc, mpc>>
    /\ UNCHANGED <<pwg, perr, mu, hepc, hearg, ignored, handlerVars, connVars>>
    /\ UNCHANGED <<nenv, addrVars>>

----------------------------------------------------------------------------
\* proxy.handleConn (main.go:116-161)

\* p.connector() succeeds: out is the new socket; wg.Add(1) and the closer
\* of out, wg.Add(2) and the two io.Copy goroutines; then wg.Wait().
DialOK(h) ==
    /\ hpc[h] = "dial"
    /\ hout' = [hout EXCEPT ![h] = Connector]
    /\ peer' = [peer EXCEPT ![Connector] = "open"]
    /\ ndials' = ndials + 1
    /\ hwg' = [hwg EXCEPT ![h] = @ + CloserAdd + CopyAdd]
    /\ cout' = [cout EXCEPT ![h] = "wait"]
    /\ cp' = [cp EXCEPT ![h] = [d \in Dirs |-> "read"]]
    /\ hpc' = [hpc EXCEPT ![h] = "wait"]
    /\ UNCHANGED <<topVars, sessVars, hin, hcancel, cin, cbuf>>
    /\ UNCHANGED <<sent, rbuf, recv, closed>>
    /\ UNCHANGED <<nenv, addrVars>>

\* Mutant: a dial failure is treated as fatal and closes the listener.
DialFail_fatal(h) ==
    /\ hpc[h] = "dial"
    /\ hpc' = [hpc EXCEPT ![h] = "failed"]
    /\ hcancel' = CancelCtx(h)
    /\ pwg' = pwg - 1
    /\ listenerClosed' = TRUE
    /\ UNCHANGED <<parentDone, runCancelled, lpc, mainWg, mpc, retErr>>
    /\ UNCHANGED <<ppc, perr, mu, hepc, hearg, ignored>>
    /\ UNCHANGED <<ndials, hin, hout, hwg, cin, cout, cp, cbuf, connVars>>
    /\ UNCHANGED <<nenv, addrVars>>

\* p.connector() fails: logError, return; the deferred cancel() and
\* p.wg.Done() run.
DialFail(h) ==
    /\ hpc[h] = "dial"
    /\ hpc' = [hpc EXCEPT ![h] = "failed"]
    /\ hcancel' = CancelCtx(h)
    /\ pwg' = pwg - 1
    /\ UNCHANGED <<topVars, ppc, perr, mu, hepc, hearg, ignored>>
    /\ UNCHANGED <<ndials, hin, hout, hwg, cin, cout, cp, cbuf, connVars>>
    /\ UNCHANGED <<nenv, addrVars>>

\* Mutant: the closer of in gives up on an idle connection without waiting
\* for the context.
CloseIn_idleTimeout(h) ==
    /\ cin[h] = "wait"
    /\ closed' = [closed EXCEPT ![hin[h]] = TRUE]
    /\ cin' = [cin EXCEPT ![h] = "done"]
    /\ UNCHANGED <<topVars, sessVars, peer, sent, rbuf, recv>>
    /\ UNCHANGED <<ndials, hpc, hin, hout, hwg, hcancel, cout, cp, cbuf>>
    /\ UNCHANGED <<nenv, addrVars>>

\* go func() { <-ctx.Done(); in.Close() }()
CloseIn(h) ==
    /\ cin[h] = "wait"
    /\ HCtxDone(h)
    /\ closed' = [closed EXCEPT ![hin[h]] = TRUE]
    /\ cin' = [cin EXCEPT ![h] = "done"]
    /\ UNCHANGED <<topVars, sessVars, peer, sent, rbuf, recv>>
    /\ UNCHANGED <<ndials, hpc, hin, hout, hwg, hcancel, cout, cp, cbuf>>
    /\ UNCHANGED <<nenv, addrVars>>

\* Mutant: the second closer closes in again instead of out.
CloseOut_wrongConn(h) ==
    /\ cout[h] = "wait"
    /\ HCtxDone(h)
    /\ closed' = [closed EXCEPT ![hin[h]] = TRUE]
    /\ cout' = [cout EXCEPT ![h] = "done"]
    /\ UNCHANGED <<topVars, sessVars, peer, sent, rbuf, recv>>
    /\ UNCHANGED <<ndials, hpc, hin, hout, hwg, hcancel, cin, cp, cbuf>>
    /\ UNCHANGED <<nenv, addrVars>>

\* go func() { <-ctx.Done(); out.Close() }()
CloseOut(h) ==
    /\ cout[h] = "wait"
    /\ HCtxDone(h)
    /\ closed' = [closed EXCEPT ![hout[h]] = TRUE]
    /\ cout' = [cout EXCEPT ![h] = "done"]
    /\ UNCHANGED <<topVars, sessVars, peer, sent, rbuf, recv>>
    /\ UNCHANGED <<ndials, hpc, hin, hout, hwg, hcancel, cin, cp, cbuf>>
    /\ UNCHANGED <<nenv, addrVars>>

\* An io.Copy goroutine ends with res ("eof": io.Copy returned nil, "err":
\* it returned an error, which is logged): the deferred cancel() and
\* wg.Done() run, and handleConn's wg.Wait() returns when the counter
\* reaches zero, after which handleConn returns (deferred cancel() and
\* p.wg.Done()).
CopyEnds(h, d, res) ==
    /\ cp' = [cp EXCEPT ![h][d] = res]
    /\ hcancel' = CancelCtx(h)
    /\ hwg' = [hwg EXCEPT ![h] = @ - 1]
    /\ IF hwg[h] - 1 = 0
       THEN /\ hpc' = [hpc EXCEPT ![h] = "done"]
            /\ pwg' = pwg - 1
       ELSE UNCHANGED <<hpc, pwg>>

\* Mutant: the end of the far end's stream is reported before the bytes
\* still pending on the socket are taken.
CopyRead_eofFirst(h, d) ==
    /\ cp[h][d] = "read"
    /\ LET s == Src(h, d) IN
       IF closed[s] \/ peer[s] = "reset"
       THEN /\ CopyEnds(h, d, "err")
            /\ UNCHANGED <<cbuf, rbuf>>
       ELSE IF peer[s] \in {"shutwr", "closed"}
       THEN /\ CopyEnds(h, d, "eof")
            /\ UNCHANGED <<cbuf, rbuf>>
       ELSE /\ rbuf[s] # <<>>
            /\ cbuf' = [cbuf EXCEPT ![h][d] = rbuf[s]]
            /\ rbuf' = [rbuf EXCEPT ![s] = <<>>]
            /\ cp' = [cp EXCEPT ![h][d] = "write"]
            /\ UNCHANGED <<hcancel, hwg, hpc, pwg>>
    /\ UNCHANGED <<topVars, ppc, perr, mu, hepc, hearg, ignored>>
    /\ UNCHANGED <<ndials, hin, hout, cin, cout, peer, sent, recv, closed>>
    /\ UNCHANGED <<nenv, addrVars>>

\* Mutant: Close() does not wake a Read that is pending on the socket.
CopyRead_blocksOnClosed(h, d) ==
    /\ cp[h][d] = "read"
    /\ LET s == Src(h, d) IN
       IF peer[s] = "reset"
       THEN /\ CopyEnds(h, d, "err")
            /\ UNCHANGED <<cbuf, rbuf>>
       ELSE IF rbuf[s] # <<>>
       THEN /\ cbuf' = [cbuf EXCEPT ![h][d] = rbuf[s]]
            /\ rbuf' = [rbuf EXCEPT ![s] = <<>>]
            /\ cp' = [cp EXCEPT ![h][d] = "write"]
            /\ UNCHANGED <<hcancel, hwg, hpc, pwg>>
       ELSE /\ peer[s] \in {"shutwr", "closed"}
            /\ CopyEnds(h, d, "eof")
            /\ UNCHANGED <<cbuf, rbuf>>
    /\ UNCHANGED <<topVars, ppc, perr, mu, hepc, hearg, ignored>>
    /\ UNCHANGED <<ndials, hin, hout, cin, cout, peer, sent, recv, closed>>
    /\ UNCHANGED <<nenv, addrVars>>

\* io.Copy: src.Read.  A closed or reset socket gives an error, pending
\* bytes are taken, the end of the far end's stream gives io.EOF, and
\* otherwise the read blocks.
CopyRead(h, d) ==
    /\ cp[h][d] = "read"
    /\ LET s == Src(h, d) IN
       IF closed[s] \/ peer[s] = "reset"
       THEN /\ CopyEnds(h, d, "err")
            /\ UNCHANGED <<cbuf, rbuf>>
       ELSE IF rbuf[s] # <<>>
       THEN /\ cbuf' = [cbuf EXCEPT ![h][d] = rbuf[s]]
            /\ rbuf' = [rbuf EXCEPT ![s] = <<>>]
            /\ cp' = [cp EXCEPT ![h][d] = "write"]
            /\ UNCHANGED <<hcancel, hwg, hpc, pwg>>
       ELSE /\ peer[s] \in {"shutwr", "closed"}
            /\ CopyEnds(h, d, "eof")
            /\ UNCHANGED <<cbuf, rbuf>>
    /\ UNCHANGED <<topVars, ppc, perr, mu, hepc, hearg, ignored>>
    /\ UNCHANGED <<ndials, hin, hout, cin, cout, peer, sent, recv, closed>>
    /\ UNCHANGED <<nenv, addrVars>>

\* Mutant: a write that is retried sends its bytes twice.
CopyWrite_twice(h, d, pipe) ==
    /\ cp[h][d] = "write"
    /\ LET t == Dst(h, d) IN
       IF closed[t] \/ peer[t] = "reset" \/ (peer[t] = "closed" /\ pipe)
       THEN /\ CopyEnds(h, d, "err")
            /\ UNCHANGED <<cbuf, recv>>
       ELSE /\ recv' = [recv EXCEPT ![t] =
                           IF peer[t] = "closed" THEN @
                           ELSE @ \o cbuf[h][d] \o cbuf[h][d]]
            /\ cbuf' = [cbuf EXCEPT ![h][d] = <<>>]
            /\ cp' = [cp EXCEPT ![h][d] = "read"]
            /\ UNCHANGED <<hcancel, hwg, hpc, pwg>>
    /\ UNCHANGED <<topVars, ppc, perr, mu, hepc, hearg, ignored>>
    /\ UNCHANGED <<ndials, hin, hout, cin, cout, peer, sent, rbuf, closed>>
    /\ UNCHANGED <<nenv, addrVars>>

\* io.Copy: dst.Write of the bytes just read.  A closed or reset socket
\* gives an error; so may a socket whose far end has closed (broken pipe),
\* or the kernel accepts the bytes and drops them.
CopyWrite(h, d, pipe) ==
    /\ cp[h][d] = "write"
    /\ LET t == Dst(h, d) IN
       IF closed[t] \/ peer[t] = "reset" \/ (peer[t] = "closed" /\ pipe)
       THEN /\ CopyEnds(h, d, "err")
            /\ UNCHANGED <<cbuf, recv>>
       ELSE /\ recv' = [recv EXCEPT ![t] =
                           IF peer[t] = "closed" THEN @ ELSE @ \o cbuf[h][d]]
            /\ cbuf' = [cbuf EXCEPT ![h][d] = <<>>]
            /\ cp' = [cp EXCEPT ![h][d] = "read"]
            /\ UNCHANGED <<hcancel, hwg, hpc, pwg>>
    /\ UNCHANGED <<topVars, ppc, perr, mu, hepc, hearg, ignored>>
    /\ UNCHANGED <<ndials, hin, hout, cin, cout, peer, sent, rbuf, closed>>
    /\ UNCHANGED <<nenv, addrVars>>

----------------------------------------------------------------------------
\* The relay's own steps, and those of its environment

Relay ==
    \/ ListenerCloser
    \/ RunReturn
    \/ AcceptClosed
    \/ HandleErrorLock
    \/ HandleErrorBody
    \/ RunWait
    \/ RunRead
    \/ \E h \in Handlers : CloseIn(h)
    \/ \E h \in Handlers : CloseOut(h)
    \/ \E h \in Handlers, d \in Dirs : CopyRead(h, d)
    \/ \E h \in Handlers, d \in Dirs, pipe \in BOOLEAN : CopyWrite(h, d, pipe)

Env ==
    \/ \E h \in Handlers : Accept(h)
    \/ AcceptError
    \/ \E h \in Handlers : DialOK(h)
    \/ \E h \in Handlers : DialFail(h)
    \/ \E c \in ConnIds : PeerWrite(c)
    \/ \E c \in ConnIds : PeerShutdownWrite(c)
    \/ \E c \in ConnIds : PeerClose(c)
    \/ \E c \in ConnIds : PeerReset(c)
    \/ CancelParent

Next == Relay \/ Env

Spec == Init /\ [][Next]_vars

\* The Go scheduler runs every goroutine that can take a step; what the
\* far ends, the dialer and the listener's faults do is left open.
Fairness ==
    /\ WF_vars(ListenerCloser)
    /\ WF_vars(RunReturn)
    /\ WF_vars(AcceptClosed)
    /\ WF_vars(HandleErrorLock)
    /\ WF_vars(HandleErrorBody)
    /\ WF_vars(RunWait)
    /\ WF_vars(RunRead)
    /\ \A h \in Handlers : WF_vars(CloseIn(h))
    /\ \A h \in Handlers : WF_vars(CloseOut(h))
    /\ \A h \in Handlers, d \in Dirs : WF_vars(CopyRead(h, d))
    /\ \A h \in Handlers, d \in Dirs :
          WF_vars(\E pipe \in BOOLEAN : CopyWrite(h, d, pipe))

FairSpec == Spec /\ Fairness

----------------------------------------------------------------------------
\* The start of run (main.go:163-199): from the two address arguments to
\* the state Init describes

\* The state run() is entered in, for any two addresses.
AddrInit ==
    /\ sourceAddr \in Addrs
    /\ destAddr \in Addrs
    /\ lnet = "none"
    /\ dnet = "none"
    /\ parentDone = FALSE
    /\ runCancelled = FALSE
    /\ listenerClosed = FALSE
    /\ lpc = "none"
    /\ mainWg = 0
    /\ mpc = "start"
    /\ retErr = "nil"
    /\ ppc = "none"
    /\ pwg = 0
    /\ perr = "nil"
    /\ mu = "free"
    /\ hepc = "none"
    /\ hearg = "nil"
    /\ ignored = FALSE
    /\ ndials = 0
    /\ hpc = [h \in Handlers |-> "idle"]
    /\ hin = [h \in Handlers |-> NoConn]
    /\ hout = [h \in Handlers |-> NoConn]
    /\ hwg = [h \in Handlers |-> 0]
    /\ hcancel = [h \in Handlers |-> FALSE]
    /\ cin = [h \in Handlers |-> "none"]
    /\ cout = [h \in Handlers |-> "none"]
    /\ cp = [h \in Handlers |-> [d \in Dirs |-> "none"]]
    /\ cbuf = [h \in Handlers |-> [d \in Dirs |-> <<>>]]
    /\ peer = [c \in ConnIds |-> "none"]
    /\ sent = [c \in ConnIds |-> 0]
    /\ rbuf = [c \in ConnIds |-> <<>>]
    /\ recv = [c \in ConnIds |-> <<>>]
    /\ closed = [c \in ConnIds |-> FALSE]
    /\ nenv = 0

\* getSourceListener succeeds; wg.Add(1) and the goroutine that closes the
\* listener (main.go:168-178).
Listen ==
    /\ mpc = "start"
    /\ lnet' = getSourceListener(sourceAddr)
    /\ lpc' = "wait"
    /\ mainWg' = mainWg + 1
    /\ mpc' = "listening"
    /\ UNCHANGED <<parentDone, runCancelled, listenerClosed, retErr>>
    /\ UNCHANGED <<sessVars, handlerVars, connVars, nenv>>
    /\ UNCHANGED <<sourceAddr, destAddr, dnet>>

\* getSourceListener fails: log.Fatalf ends the process (main.go:169-171).
ListenFail ==
    /\ mpc = "start"
    /\ lnet' = getSourceListener(sourceAddr)
    /\ mpc' = "fatal"
    /\ UNCHANGED <<parentDone, runCancelled, listenerClosed, lpc, mainWg, retErr>>
    /\ UNCHANGED <<sessVars, handlerVars, connVars, nenv>>
    /\ UNCHANGED <<sourceAddr, destAddr, dnet>>

\* wg.Add(1) and the goroutine that builds the proxy with its connector and
\* calls p.run, which does p.wg.Add(1) and enters the accept loop
\* (main.go:181-199, 89-90).
StartProxy ==
    /\ mpc = "listening"
    /\ dnet' = ConnectorNetwork(destAddr)
    /\ mainWg' = mainWg + 1
    /\ ppc' = "accept"
    /\ pwg' = pwg + 1
    /\ mpc' = "wait"
    /\ UNCHANGED <<parentDone, runCancelled, listenerClosed, lpc, retErr>>
    /\ UNCHANGED <<perr, mu, hepc, hearg, ignored>>
    /\ UNCHANGED <<handlerVars, connVars, nenv>>
    /\ UNCHANGED <<sourceAddr, destAddr, lnet>>

AddrNext == Listen \/ ListenFail \/ StartProxy

AddrSpec == AddrInit /\ [][AddrNext]_vars

----------------------------------------------------------------------------
\* Vocabulary of the properties

\* The handler's dial succeeded: it owns a pair of connections.
Established(h) == hout[h] # NoConn
\* The far end of c still has its socket: it reads what the relay wrote and
\* then sees what the relay did to the connection.
Listening(c) == peer[c] \in {"open", "shutwr"}
\* The far end of c has read the end of the stream the relay wrote.
SeesEOF(c) == Listening(c) /\ closed[c]
\* No connection of the handler's pair was reset by its far end.
NoReset(h) == peer[hin[h]] # "reset" /\ peer[hout[h]] # "reset"
\* Everything the far end of c has written.
Written(c) == Stream(c, sent[c])
\* A copy goroutine of the handler has returned.
CopyDone(h, d) == cp[h][d] \in {"eof", "err"}
\* The connections of a handler.
ConnsOf(h) == {hin[h], hout[h]} \ {NoConn}

\* What a step leaves alone when it does not touch handler g.
HandlerUntouched(g) ==
    /\ hpc'[g] = hpc[g] /\ hin'[g] = hin[g] /\ hout'[g] = hout[g]
    /\ hwg'[g] = hwg[g] /\ hcancel'[g] = hcancel[g]
    /\ cin'[g] = cin[g] /\ cout'[g] = cout[g]
    /\ cp'[g] = cp[g] /\ cbuf'[g] = cbuf[g]
    /\ \A c \in ConnsOf(g) :
          /\ peer'[c] = peer[c] /\ sent'[c] = sent[c] /\ rbuf'[c] = rbuf[c]
          /\ recv'[c] = recv[c] /\ closed'[c] = closed[c]

\* What a step leaves alone when it does not touch the session.
SessionUntouched ==
    /\ ppc' = ppc /\ perr' = perr /\ hepc' = hepc /\ retErr' = retErr
    /\ listenerClosed' = listenerClosed /\ runCancelled' = runCancelled
    /\ parentDone' = parentDone

----------------------------------------------------------------------------
C2_AllBytesBeforeEOF ==
    \A h \in Handlers : \A d \in Dirs :
        ( /\ Established(h)
          /\ ~parentDone
          /\ NoReset(h)
          /\ SeesEOF(Dst(h, d)) )
        => recv[Dst(h, d)] = Written(Src(h, d))

\* C2 as amended: what a side has received is always a prefix of what the
\* other side wrote, and it is all of it once that direction's own copy has
\* ended on end-of-stream towards a side that still listens.
C2_PrefixAndOwnEOF ==
    \A h \in Handlers : \A d \in Dirs :
        Established(h) =>
            /\ IsPrefix(recv[Dst(h, d)], Written(Src(h, d)))
            /\ (cp[h][d] = "eof" /\ Listening(Dst(h, d)))
                  => recv[Dst(h, d)] = Written(Src(h, d))

C2_Witness ==
    \E h \in Handlers :
        /\ Established(h)
        /\ cp[h]["down"] = "eof"
        /\ Listening(hin[h])
        /\ sent[hout[h]] > 0
        /\ recv[hin[h]] = Written(hout[h])
        /\ closed[hin[h]]

\* C3: the step in which a handler's dial fails changes nothing of the
\* session (the accept loop goes on, no error is set, the listener stays
\* open) and nothing of any other handler.
C3_DialFailureIsLocal ==
    [][\A h \in Handlers :
          (hpc[h] = "dial" /\ hpc'[h] = "failed")
          => /\ SessionUntouched
             /\ \A g \in Handlers \ {h} : HandlerUntouched(g)]_vars

\* A dial has failed, the accept loop is still accepting, and a connection
\* accepted after the failed one has carried bytes to the destination.
C3_Witness ==
    /\ hpc[1] = "failed"
    /\ ppc = "accept"
    /\ perr = "nil"
    /\ Established(2)
    /\ sent[hin[2]] > 0
    /\ recv[hout[2]] = Written(hin[2])

\* C4: a handler whose dial failed never has an outbound connection, and
\* its inbound connection is eventually closed by the relay.
C4_FailedDialClosesInbound ==
    \A h \in Handlers :
        /\ [](hpc[h] = "failed" => hout[h] = NoConn)
        /\ (hpc[h] = "failed") ~> (hpc[h] = "failed" /\ closed[hin[h]])

C4_Witness ==
    \E h \in Handlers :
        hpc[h] = "failed" /\ closed[hin[h]] /\ hout[h] = NoConn /\ ~parentDone

\* C5: once a copy goroutine of a pair has returned, both connections of
\* the pair are eventually closed by the relay; and whenever the relay has
\* closed one connection of a pair, it eventually has closed both.
C5_BothClosedTogether ==
    \A h \in Handlers :
        /\ (\E d \in Dirs : CopyDone(h, d))
               ~> (Established(h) /\ closed[hin[h]] /\ closed[hout[h]])
        /\ (Established(h) /\ (closed[hin[h]] \/ closed[hout[h]]))
               ~> (Established(h) /\ closed[hin[h]] /\ closed[hout[h]])

C5_Witness ==
    \E h \in Handlers :
        /\ cp[h]["up"] = "eof"
        /\ closed[hin[h]] /\ closed[hout[h]]
        /\ ~parentDone

\* C6: once proxy.run has returned after Accept() failed, the error it
\* returned is the accept failure.
C6_AcceptFailureReturned ==
    ppc = "done" => retErr = "accept"

\* C7 as claimed: once the accept loop has ended, p.wg.Wait() in proxy.run
\* does not block on a pair that is still spliced (neither side has closed,
\* the relay has closed nothing).
C7_RunDoesNotWaitForPairs ==
    ( /\ ppc = "wait"
      /\ \E h \in Handlers :
            /\ Established(h)
            /\ peer[hin[h]] = "open" /\ peer[hout[h]] = "open"
            /\ ~closed[hin[h]] /\ ~closed[hout[h]] )
    => ENABLED RunWait

\* C7 as amended: proxy.run gets past p.wg.Wait() only when the accept loop
\* has ended and every handler it started has returned.
C7_RunWaitsForHandlers ==
    ppc \in {"read", "done"} =>
        \A h \in Handlers : hpc[h] \in {"idle", "failed", "done"}

C7_Witness ==
    /\ mpc = "returned"
    /\ \E h \in Handlers : hpc[h] = "failed"

\* C8: no two handlers share a connection, and every byte delivered to a
\* connection of a pair, or held by one of its copy goroutines, was written
\* by the far end of the pair's other connection.
C8_NoCrossDelivery ==
    /\ \A h, g \in Handlers :
          h # g => ConnsOf(h) \cap ConnsOf(g) = {}
    /\ \A h \in Handlers : Established(h) => hin[h] # hout[h]
    /\ \A h \in Handlers : \A d \in Dirs :
          Established(h) =>
             /\ \A i \in 1..Len(recv[Dst(h, d)]) :
                   recv[Dst(h, d)][i][1] = Src(h, d)
             /\ \A i \in 1..Len(cbuf[h][d]) : cbuf[h][d][i][1] = Src(h, d)

\* Two pairs are spliced at once and each has carried a byte.
C8_Witness ==
    /\ Established(1) /\ Established(2)
    /\ recv[hout[1]] # <<>>
    /\ recv[hin[2]] # <<>>
    /\ ~closed[hin[1]] /\ ~closed[hin[2]]

\* C9: the step in which a copy goroutine ends with an error changes
\* nothing of the session and nothing of any other handler, and a
\* connection is only ever closed after its own handler's context is done.
C9_CopyErrorIsLocal ==
    [][/\ \A h \in Handlers : \A d \in Dirs :
             (cp[h][d] \in {"read", "write"} /\ cp'[h][d] = "err")
             => /\ SessionUntouched
                /\ \A g \in Handlers \ {h} : HandlerUntouched(g)
       /\ \A g \in Handlers : \A c \in ConnsOf(g) :
             (~closed[c] /\ closed'[c]) => HCtxDone(g)]_vars

\* A copy of pair 1 has failed and pair 1 is torn down, while pair 2 is
\* spliced and untouched and the accept loop has not stopped.
C9_Witness ==
    /\ \E d \in Dirs : cp[1][d] = "err"
    /\ closed[hin[1]] /\ closed[hout[1]]
    /\ Established(2)
    /\ ~hcancel[2] /\ ~closed[hin[2]] /\ ~closed[hout[2]]
    /\ \A d \in Dirs : cp[2][d] \in {"read", "write"}
    /\ ppc = "accept" /\ perr = "nil"

\* C10: a task that is about to read or write proxy.err holds proxy.mu.
C10_ErrAccessUnderMutex ==
    /\ hepc = "locked" => mu = "he"
    /\ ppc = "read" => mu = "run"

\* C11: once the first handleError call has returned, proxy.err holds the
\* error that call was given.
C11_FirstErrorStored ==
    hepc = "done" => perr = hearg

\* An address has a slash somewhere.
HasSlash(addr) == \E i \in 1..Len(addr) : addr[i] = "/"
\* The family of an address: unix with a slash, tcp without.
Family(addr) == IF HasSlash(addr) THEN "unix" ELSE "tcp"

\* C12: an address is a unix socket address exactly when it has a slash;
\* the listener is opened on the family of the source address and the
\* connector dials the family of the destination address; the four
\* example addresses classify as stated.
C12_ClassifiedBySlash ==
    /\ \A a \in {sourceAddr, destAddr} : isUnixSocket(a) <=> HasSlash(a)
    /\ lnet # "none" => lnet = Family(sourceAddr)
    /\ dnet # "none" => dnet = Family(destAddr)
    /\ sourceAddr \in {AddrTcpIp, AddrTcpName} => ~isUnixSocket(sourceAddr)
    /\ sourceAddr \in {AddrUnixAbs, AddrUnixRel} => isUnixSocket(sourceAddr)

\* The listener is on the unix socket "./sock" and the connector dials tcp
\* "example:9000".
C12_Witness ==
    /\ sourceAddr = AddrUnixRel
    /\ destAddr = AddrTcpName
    /\ lnet = "unix"
    /\ dnet = "tcp"
    /\ mpc = "wait"

\* The far end of c has ended its stream, closed or reset its socket.
PeerEnded(c) == peer[c] \in {"shutwr", "closed", "reset"}

\* C13: once a copy goroutine of a pair has returned, or a side of the pair
\* has ended its stream or closed, both copy goroutines eventually return.
C13_OtherCopyTerminates ==
    \A h \in Handlers :
        /\ (\E d \in Dirs : CopyDone(h, d)) ~> (\A d \in Dirs : CopyDone(h, d))
        /\ (Established(h) /\ (PeerEnded(hin[h]) \/ PeerEnded(hout[h])))
               ~> (\A d \in Dirs : CopyDone(h, d))

\* The client closed, io.Copy(out, in) ended on end-of-stream, and
\* io.Copy(in, out), which had nothing to read, ended on the closed socket.
C13_Witness ==
    \E h \in Handlers :
        /\ Established(h)
        /\ peer[hin[h]] = "closed" /\ peer[hout[h]] = "open"
        /\ sent[hout[h]] = 0
        /\ cp[h]["up"] = "eof"
        /\ cp[h]["down"] = "err"
        /\ ~parentDone

\* C14: once both copy goroutines of a pair have returned, handleConn has
\* returned too: its wg.Wait() is over and it has released p.wg.
C14_HandlerReturns ==
    \A h \in Handlers :
        (\A d \in Dirs : CopyDone(h, d)) => (hpc[h] = "done" /\ hwg[h] = 0)

\* A Read of the copy goroutine would return: its socket is closed or
\* reset, holds bytes, or is at the end of the far end's stream.
ReadReady(h, d) ==
    \/ closed[Src(h, d)]
    \/ rbuf[Src(h, d)] # <<>>
    \/ PeerEnded(Src(h, d))

\* C15: while the session is accepting and a client is connecting, the
\* accept step is enabled whatever the pairs are doing; and every step of a
\* pair is enabled by that pair's own state alone (its dial, its context,
\* its sockets), whatever the other pairs are doing.
C15_NoCrossBlocking ==
    /\ (ppc = "accept" /\ ~listenerClosed /\ \E h \in Handlers : hpc[h] = "idle")
          => ENABLED (\E h \in Handlers : Accept(h))
    /\ \A h \in Handlers :
          /\ hpc[h] = "dial" => (ENABLED DialOK(h) /\ ENABLED DialFail(h))
          /\ (cin[h] = "wait" /\ HCtxDone(h)) => ENABLED CloseIn(h)
          /\ (cout[h] = "wait" /\ HCtxDone(h)) => ENABLED CloseOut(h)
          /\ \A d \in Dirs :
                /\ (cp[h][d] = "read" /\ ReadReady(h, d)) => ENABLED CopyRead(h, d)
                /\ cp[h][d] = "write"
                      => ENABLED (\E pipe \in BOOLEAN : CopyWrite(h, d, pipe))

\* Pair 1 is spliced and both its copies are blocked in Read, with nothing
\* closed; the accept loop can take the next connection.
C15_Witness ==
    /\ Established(1)
    /\ \A d \in Dirs : cp[1][d] = "read" /\ ~ReadReady(1, d)
    /\ ppc = "accept"
    /\ hpc[2] = "idle"
    /\ ENABLED Accept(2)

\* C16: as long as no copy goroutine of an established pair has returned
\* and the context given to run() is not cancelled, the relay has closed
\* neither connection of the pair and both copies are still running.
C16_NoIdleTimeout ==
    \A h \in Handlers :
        (Established(h) /\ ~parentDone /\ \A d \in Dirs : ~CopyDone(h, d))
        => /\ ~closed[hin[h]] /\ ~closed[hout[h]]
           /\ hpc[h] = "wait"
           /\ \A d \in Dirs : cp[h][d] \in {"read", "write"}

\* Pair 1 is spliced, its two far ends are open and have written nothing,
\* and it is untouched although the environment has taken all its steps;
\* the other pair has been torn down meanwhile.
C16_Witness ==
    /\ Established(1)
    /\ peer[hin[1]] = "open" /\ peer[hout[1]] = "open"
    /\ sent[hin[1]] = 0 /\ sent[hout[1]] = 0
    /\ ~closed[hin[1]] /\ ~closed[hout[1]]
    /\ nenv = MaxEvents
    /\ Established(2) /\ closed[hin[2]] /\ closed[hout[2]]

\* C17: once the context given to run() is cancelled, the listener is
\* eventually closed and the accept loop ended, and every connection a
\* handler holds, inbound or outbound, is eventually closed.
C17_CancelClosesEverything ==
    /\ parentDone ~> (listenerClosed /\ ppc # "accept")
    /\ \A h \in Handlers :
          /\ (parentDone /\ hin[h] # NoConn)
                ~> (hin[h] # NoConn /\ closed[hin[h]])
          /\ (parentDone /\ Established(h))
                ~> (Established(h) /\ closed[hout[h]])

\* After the cancellation the listener is closed, the accept loop has
\* ended, and a pair none of whose copies had ended has both connections
\* closed.
C17_Witness ==
    /\ parentDone
    /\ listenerClosed
    /\ ppc = "wait"
    /\ \E h \in Handlers :
          /\ Established(h)
          /\ ~hcancel[h]
          /\ closed[hin[h]] /\ closed[hout[h]]

\* C18: when the context given to run() is cancelled and no goroutine of
\* the relay can take a step any more (and no dial is pending), run() has
\* returned.
C18_CancelledRunReturns ==
    (parentDone /\ ~ENABLED Relay /\ \A h \in Handlers : hpc[h] # "dial")
    => mpc = "returned"

\* C19: when proxy.run has read proxy.err and returned it, the handleError
\* goroutine it started has completed.
C19_HandleErrorBeforeRead ==
    ppc = "done" => hepc = "done"

====
